---- MODULE Spec2Model ----
(***************************************************************************)
(* The human-in-the-loop agent loop of agent_panel.py as a state machine.  *)
(*                                                                         *)
(* The state is the Streamlit session state of DEFAULT_STATE (agent_df is  *)
(* only handed through to the tools and is left out), plus the decision    *)
(* the latest script run consumed and the exception that ended it.         *)
(* One step of the model is one unit of work of agent_panel: a new         *)
(* question (restart_agent), one run_step tick, or one human decision.     *)
(* After restart_agent the same script run goes on to the dispatch of      *)
(* line 364 with phase = thinking; that tick is the model's next step.     *)
(*                                                                         *)
(* Texts are tuples of string tokens, so that formatting (an f-string, a   *)
(* += on a string) is concatenation and not the identity.                  *)
(***************************************************************************)
EXTENDS Integers, Sequences, FiniteSets, TLC

\* ---- bounds of the model ----
\* the largest number of tool calls in one proposal of the model client
MaxCalls == 2
\* the longest Transcript the model explores
MaxTurns == 7

\* ---- values ----
\* Python's None, for the pending message
None == [role |-> "None"]
\* Python's None, for the rewind target (an index otherwise)
NoIndex == -1
\* Python's None, for the optional answer of a Reasoning object
NoneStr == "None"

Questions == {"average rating?"}
Reasons == {"I need to query"}
Answers == {NoneStr, "The average rating is 7.1"}
Feedbacks == {"", "too slow"}
Prompts == {"", "use median instead"}
Codes == {"df['rating'].mean()"}
SpecStrs == {"{mark: bar}", "not json"}

VARIABLES agent_phase, agent_events, agent_messages, agent_tools,
          agent_chart_specs, agent_pending_message, agent_rewrite_event_index,
          decision, raised

vars == <<agent_phase, agent_events, agent_messages, agent_tools,
          agent_chart_specs, agent_pending_message, agent_rewrite_event_index,
          decision, raised>>

\* the session state proper (what DEFAULT_STATE names)
run == <<agent_phase, agent_events, agent_messages, agent_tools,
         agent_chart_specs, agent_pending_message, agent_rewrite_event_index>>

\* ---- the tools (movie_tool.py, chart_tool.py) ----
\* get_tools(filtered_df): the schema list of the data-query tool
get_tools == <<"QueryMovieDB">>

\* get_chart_tool(): the schema of the chart tool
get_chart_tool == "CreateChart"

\* query_movie_db(code, df): the textual observation of running code
query_movie_db(code) == <<"result of ", code>>

\* validate_chart(spec_str): <<spec or None, result text>>
validate_chart(spec_str) ==
    IF spec_str = "{mark: bar}"
    THEN <<[mark |-> "bar"], <<"Chart created successfully.">>>>
    ELSE <<None, <<"Error: invalid Vega-Lite specification.">>>>

\* ---- initial state: DEFAULT_STATE, before any question ----
Init ==
    /\ agent_phase = "idle"
    /\ agent_events = <<>>
    /\ agent_messages = <<>>
    /\ agent_tools = <<>>
    /\ agent_chart_specs = <<>>
    /\ agent_pending_message = None
    /\ agent_rewrite_event_index = NoIndex
    /\ decision = "none"
    /\ raised = "none"

\* ---- restart_agent ----
system_content(show_chart) ==
    <<"You are a data analyst with access to a tool that executes Python code on a movie database.">>
    \o (IF show_chart
        THEN <<" After computing the data, create a chart using a Vega-Lite specification.">>
        ELSE <<>>)

\* a restart that leaves the pending proposal in place
restart_agent_keeps_pending(user_question, show_chart) ==
    /\ agent_phase' = "thinking"
    /\ agent_events' = <<>>
    /\ agent_chart_specs' = <<>>
    /\ agent_messages' = << [role |-> "system", content |-> system_content(show_chart)],
                            [role |-> "user", content |-> <<user_question>>] >>
    /\ agent_tools' = (IF show_chart THEN Append(get_tools, get_chart_tool) ELSE get_tools)
    /\ UNCHANGED <<agent_pending_message, agent_rewrite_event_index>>

restart_agent(user_question, show_chart) ==
    /\ agent_phase' = "thinking"
    /\ agent_events' = <<>>
    /\ agent_chart_specs' = <<>>
    /\ agent_pending_message' = None
    /\ agent_messages' = << [role |-> "system", content |-> system_content(show_chart)],
                            [role |-> "user", content |-> <<user_question>>] >>
    /\ agent_tools' = (IF show_chart THEN Append(get_tools, get_chart_tool) ELSE get_tools)
    /\ UNCHANGED agent_rewrite_event_index

\* ---- the model client's responses ----
\* the largest call id of the Transcript (call ids are fresh per response)
MaxId(messages) ==
    LET ids == UNION { {messages[j].tool_calls[k].id : k \in 1..Len(messages[j].tool_calls)} :
                       j \in {j \in 1..Len(messages) : "tool_calls" \in DOMAIN messages[j]} }
    IN IF ids = {} THEN 0 ELSE CHOOSE m \in ids : \A x \in ids : x <= m

\* what one requested invocation can be: a tool name (a registered one or
\* not) and its arguments as json.loads of line 97 decodes them; the payload
\* is taken to be JSON of the shape the tool's schema asks for
CallShapes ==
    {[name |-> "QueryMovieDB", arguments |-> [code |-> c]] : c \in Codes}
    \cup {[name |-> "CreateChart", arguments |-> [vega_lite_spec |-> s]] : s \in SpecStrs}
    \cup {[name |-> "Summarize", arguments |-> [code |-> c]] : c \in Codes}

\* msg.tool_calls of a response with n calls, each with a fresh id
ToolCalls(n) ==
    { [k \in 1..n |-> [id |-> MaxId(agent_messages) + k,
                       name |-> shapes[k].name,
                       arguments |-> shapes[k].arguments]] :
      shapes \in [1..n -> CallShapes] }

\* client.chat.completions.parse(...): it raises, or returns a Reasoning object
ParseResponses ==
    {[error |-> TRUE]}
    \cup {[error |-> FALSE,
           parsed |-> [reason |-> r, use_tool |-> TRUE, answer |-> NoneStr]] : r \in Reasons}
    \cup {[error |-> FALSE,
           parsed |-> [reason |-> r, use_tool |-> FALSE, answer |-> a]] :
          r \in Reasons, a \in Answers}

\* client.chat.completions.create(...): it raises, or returns a message with
\* no tool calls or with 1..MaxCalls of them
CreateResponses ==
    {[error |-> TRUE]}
    \cup {[error |-> FALSE, tool_calls |-> <<>>]}
    \cup {[error |-> FALSE, tool_calls |-> tcs] :
          tcs \in UNION {ToolCalls(n) : n \in 1..MaxCalls}}

\* ---- run_step ----
\* a failing client call that has already advanced the phase
client_raises_after_advance ==
    /\ raised' = "ModelCallError"
    /\ agent_phase' = (IF agent_phase = "thinking" THEN "acting" ELSE "awaiting_approval")
    /\ UNCHANGED <<agent_events, agent_messages, agent_tools, agent_chart_specs,
                   agent_pending_message, agent_rewrite_event_index>>

\* the client call of line 61 or of line 77 raises: it is the first statement
\* of its branch that could write, so nothing has been written
client_raises ==
    /\ raised' = "ModelCallError"
    /\ UNCHANGED run

\* an acting step without calls that makes up an Answer event
no_tool_calls_synthesizes_answer ==
    /\ agent_phase' = "done"
    /\ agent_events' = Append(agent_events,
                              [type |-> "answer", thought |-> "", answer |-> NoneStr])
    /\ UNCHANGED <<agent_messages, agent_tools, agent_chart_specs,
                   agent_pending_message, agent_rewrite_event_index>>

\* lines 82-84: the response has no tool calls
no_tool_calls ==
    /\ agent_phase' = "done"
    /\ UNCHANGED <<agent_events, agent_messages, agent_tools, agent_chart_specs,
                   agent_pending_message, agent_rewrite_event_index>>

\* a proposal stored without leaving the acting phase
store_pending_keeps_acting(tool_calls) ==
    /\ agent_pending_message' = [role |-> "assistant", tool_calls |-> tool_calls]
    /\ UNCHANGED <<agent_phase, agent_events, agent_messages, agent_tools,
                   agent_chart_specs, agent_rewrite_event_index>>

\* lines 86-87: the response's message becomes the pending proposal
store_pending(tool_calls) ==
    /\ agent_pending_message' = [role |-> "assistant", tool_calls |-> tool_calls]
    /\ agent_phase' = "awaiting_approval"
    /\ UNCHANGED <<agent_events, agent_messages, agent_tools, agent_chart_specs,
                   agent_rewrite_event_index>>

run_step(response) ==
    IF response.error
    THEN client_raises
    ELSE
      /\ raised' = "none"
      /\ IF agent_phase = "thinking"
         THEN LET reasoning == response.parsed IN
              /\ agent_messages' = Append(agent_messages,
                                          [role |-> "assistant", content |-> <<reasoning.reason>>])
              /\ IF reasoning.use_tool
                 THEN /\ agent_events' = Append(agent_events,
                                                [type |-> "thought", thought |-> reasoning.reason])
                      /\ agent_phase' = "acting"
                 ELSE /\ agent_events' = Append(agent_events,
                                                [type |-> "answer", thought |-> reasoning.reason,
                                                 answer |-> reasoning.answer])
                      /\ agent_phase' = "done"
              /\ UNCHANGED <<agent_tools, agent_chart_specs, agent_pending_message,
                             agent_rewrite_event_index>>
         ELSE \* phase = acting
              IF response.tool_calls = <<>>
              THEN no_tool_calls
              ELSE store_pending(response.tool_calls)

\* ---- execute_pending_tools ----
\* the rewind point taken after the proposal was appended
rewind_point_after_append(messages) == Len(messages) + 1

\* the rewind point taken one turn too early
rewind_point_before(messages) == Len(messages) - 1

\* line 94: the rewind point is the Transcript length before the proposal
rewind_point_of(messages) == Len(messages)

\* the for loop of lines 96-116 from call k on; acc holds the lists written so
\* far, the local variable result (bound or not) and the exception raised
RECURSIVE ExecuteLoop(_, _, _, _)
ExecuteLoop(tool_calls, k, rewind_point, acc) ==
    IF k > Len(tool_calls) \/ acc.raised # "none"
    THEN acc
    ELSE LET tc == tool_calls[k]
             ran ==
                 IF tc.name = "QueryMovieDB"
                 THEN LET result == query_movie_db(tc.arguments.code) IN
                      [acc EXCEPT !.result = result, !.bound = TRUE,
                                  !.events = Append(@, [type |-> "action", name |-> tc.name,
                                                        code |-> tc.arguments.code,
                                                        result |-> result,
                                                        rewind_point |-> rewind_point])]
                 ELSE IF tc.name = "CreateChart"
                 THEN LET v == validate_chart(tc.arguments.vega_lite_spec) IN
                      [acc EXCEPT !.result = v[2], !.bound = TRUE,
                                  !.chart_specs = IF v[1] # None THEN Append(@, v[1]) ELSE @,
                                  !.events = Append(@, [type |-> "chart", name |-> tc.name,
                                                        spec_str |-> tc.arguments.vega_lite_spec,
                                                        result |-> v[2],
                                                        rewind_point |-> rewind_point])]
                 ELSE acc
         IN IF ~ran.bound
            THEN \* line 116 reads result, which no branch has assigned
                 [ran EXCEPT !.raised = "UnboundLocalError"]
            ELSE ExecuteLoop(tool_calls, k + 1, rewind_point,
                             [ran EXCEPT !.messages = Append(@, [role |-> "tool",
                                                                 content |-> ran.result,
                                                                 tool_call_id |-> tc.id])])

execute_pending_tools ==
    LET pending_msg == agent_pending_message
        rewind_point == rewind_point_of(agent_messages)
        out == ExecuteLoop(pending_msg.tool_calls, 1, rewind_point,
                           [messages |-> Append(agent_messages, pending_msg),
                            events |-> agent_events,
                            chart_specs |-> agent_chart_specs,
                            result |-> <<>>, bound |-> FALSE, raised |-> "none"])
    IN /\ agent_messages' = out.messages
       /\ agent_events' = out.events
       /\ agent_chart_specs' = out.chart_specs
       /\ raised' = out.raised
       /\ IF out.raised = "none"
          THEN /\ agent_pending_message' = None
               /\ agent_phase' = "thinking"
          ELSE UNCHANGED <<agent_pending_message, agent_phase>>
       /\ UNCHANGED <<agent_tools, agent_rewrite_event_index>>

\* ---- reject_pending_tools ----
rejection_msg(feedback) ==
    <<"User rejected this action.">>
    \o (IF feedback # "" THEN <<" User feedback: ", feedback>>
                         ELSE <<" Try a different approach.">>)

\* a rejection that runs the proposed tools all the same
reject_pending_tools_runs_tools(feedback) ==
    execute_pending_tools

\* one Rejected event for the whole proposal instead of one per call
rejected_events_once(tool_calls, feedback) ==
    << [type |-> "rejected", name |-> tool_calls[1].name, feedback |-> feedback] >>

\* lines 132-136: the Rejected events of the loop, one per requested call
rejected_events(tool_calls, feedback) ==
    [k \in 1..Len(tool_calls) |-> [type |-> "rejected",
                                   name |-> tool_calls[k].name,
                                   feedback |-> feedback]]

\* a rejection that forgets to append the proposal before its tool turns
reject_pending_tools_without_proposal(feedback) ==
    LET pending_msg == agent_pending_message
        n == Len(pending_msg.tool_calls)
    IN /\ agent_messages' = agent_messages
                            \o [k \in 1..n |-> [role |-> "tool",
                                                content |-> rejection_msg(feedback),
                                                tool_call_id |-> pending_msg.tool_calls[k].id]]
       /\ agent_events' = agent_events \o rejected_events(pending_msg.tool_calls, feedback)
       /\ agent_pending_message' = None
       /\ agent_phase' = "thinking"
       /\ UNCHANGED <<agent_tools, agent_chart_specs, agent_rewrite_event_index>>

reject_pending_tools(feedback) ==
    LET pending_msg == agent_pending_message
        n == Len(pending_msg.tool_calls)
    IN /\ agent_messages' = Append(agent_messages, pending_msg)
                            \o [k \in 1..n |-> [role |-> "tool",
                                                content |-> rejection_msg(feedback),
                                                tool_call_id |-> pending_msg.tool_calls[k].id]]
       /\ agent_events' = agent_events \o rejected_events(pending_msg.tool_calls, feedback)
       /\ agent_pending_message' = None
       /\ agent_phase' = "thinking"
       /\ UNCHANGED <<agent_tools, agent_chart_specs, agent_rewrite_event_index>>

\* ---- edit_pending_tools ----
\* an edit message that leaves the prompt out
edit_msg_without_prompt(edit_prompt) ==
    <<"User wants changes to the proposed code: ",
      ". Regenerate the tool call with these changes.">>

edit_msg(edit_prompt) ==
    <<"User wants changes to the proposed code: ", edit_prompt,
      ". Regenerate the tool call with these changes.">>

\* an edit that hands the run back to the thinking step
edit_pending_tools_to_thinking(edit_prompt) ==
    LET pending_msg == agent_pending_message
        n == Len(pending_msg.tool_calls)
    IN /\ agent_messages' = Append(agent_messages, pending_msg)
                            \o [k \in 1..n |-> [role |-> "tool",
                                                content |-> edit_msg(edit_prompt),
                                                tool_call_id |-> pending_msg.tool_calls[k].id]]
       /\ agent_events' = Append(agent_events, [type |-> "edited", prompt |-> edit_prompt])
       /\ agent_pending_message' = None
       /\ agent_phase' = "thinking"
       /\ UNCHANGED <<agent_tools, agent_chart_specs, agent_rewrite_event_index>>

edit_pending_tools(edit_prompt) ==
    LET pending_msg == agent_pending_message
        n == Len(pending_msg.tool_calls)
    IN /\ agent_messages' = Append(agent_messages, pending_msg)
                            \o [k \in 1..n |-> [role |-> "tool",
                                                content |-> edit_msg(edit_prompt),
                                                tool_call_id |-> pending_msg.tool_calls[k].id]]
       /\ agent_events' = Append(agent_events, [type |-> "edited", prompt |-> edit_prompt])
       /\ agent_pending_message' = None
       /\ agent_phase' = "acting"
       /\ UNCHANGED <<agent_tools, agent_chart_specs, agent_rewrite_event_index>>

\* ---- rewind_and_edit ----
\* del messages[rewind_point:]
truncate_messages(messages, rewind_point) == SubSeq(messages, 1, rewind_point)

\* a truncation that keeps the selected event
truncate_events_after(events, event_index) == SubSeq(events, 1, event_index + 1)

\* no truncation of the log at all
truncate_events_never(events, event_index) == events

\* del events[event_index:]
truncate_events(events, event_index) == SubSeq(events, 1, event_index)

\* the chart list of every Chart event, failed validations included
RECURSIVE derive_chart_specs_unfiltered(_)
derive_chart_specs_unfiltered(events) ==
    IF events = <<>>
    THEN <<>>
    ELSE (IF Head(events).type = "chart"
          THEN <<validate_chart(Head(events).spec_str)[1]>>
          ELSE <<>>) \o derive_chart_specs_unfiltered(Tail(events))

\* the chart list recomputed from the Chart events of a log (lines 286-290)
RECURSIVE derive_chart_specs(_)
derive_chart_specs(events) ==
    IF events = <<>>
    THEN <<>>
    ELSE LET e == Head(events)
             spec == IF e.type = "chart" THEN validate_chart(e.spec_str)[1] ELSE None
         IN (IF spec # None THEN <<spec>> ELSE <<>>) \o derive_chart_specs(Tail(events))

rewind_msg(edit_prompt) ==
    <<"User wants changes: ", edit_prompt, ". Regenerate the tool call.">>

\* event_index and the rewind point are Python's 0-based positions
rewind_and_edit(event_index, edit_prompt) ==
    LET rewind_point == agent_events[event_index + 1].rewind_point
        messages == truncate_messages(agent_messages, rewind_point)
        events == truncate_events(agent_events, event_index)
    IN /\ agent_chart_specs' = derive_chart_specs(events)
       /\ agent_events' = Append(events, [type |-> "edited", prompt |-> edit_prompt])
       /\ agent_messages' = Append(messages, [role |-> "user",
                                              content |-> rewind_msg(edit_prompt)])
       /\ agent_rewrite_event_index' = NoIndex
       /\ agent_phase' = "acting"
       /\ UNCHANGED <<agent_tools, agent_pending_message>>

\* ---- render_panel ----
\* the 0-based indices of the events that render an inline widget
\* (render_events: only action and chart events carry the Edit button and the
\* inline edit form)
ActionIndices ==
    {i \in 0..(Len(agent_events) - 1) : agent_events[i + 1].type \in {"action", "chart"}}

\* the decisions the panel offers in the current state (the keys of actions)
render_panel ==
    IF agent_phase = "awaiting_approval" THEN {"approved", "edited", "rejected"}
    ELSE IF agent_phase = "awaiting_edit"
    THEN IF agent_rewrite_event_index # NoIndex
         THEN IF agent_rewrite_event_index \in ActionIndices
              THEN {"edit_submitted", "edit_cancelled"}
              ELSE {}
         ELSE IF agent_pending_message # None
              THEN {"edit_submitted", "edit_cancelled"}
              ELSE {}
    ELSE IF agent_phase = "awaiting_feedback" THEN {"submitted"}
    ELSE IF agent_phase = "done" /\ ActionIndices # {} THEN {"rewind_index"}
    ELSE {}

\* ---- agent_panel: one script run ----
\* lines 359-360: the Analyze button with a non-empty question
NewQuestion ==
    \E user_question \in Questions, show_chart \in BOOLEAN :
        /\ restart_agent(user_question, show_chart)
        /\ decision' = "analyze"
        /\ raised' = "none"

\* lines 365-367: one tick of the model client
Tick ==
    /\ agent_phase \in {"thinking", "acting"}
    /\ \E response \in (IF agent_phase = "thinking" THEN ParseResponses ELSE CreateResponses) :
          /\ (~response.error /\ agent_phase = "thinking") => Len(agent_messages) < MaxTurns
          /\ (~response.error /\ agent_phase = "acting" /\ response.tool_calls # <<>>)
                => Len(agent_messages) + 1 + Len(response.tool_calls) <= MaxTurns
          /\ run_step(response)
    /\ decision' = "none"

\* the Transcript has room for the pending proposal and its tool turns
Room ==
    Len(agent_messages) + 1 + Len(agent_pending_message.tool_calls) <= MaxTurns

\* lines 368-371
Approve ==
    /\ agent_phase = "awaiting_approval"
    /\ "approved" \in render_panel
    /\ Room
    /\ execute_pending_tools
    /\ decision' = "approved"

\* lines 372-374
ChooseEdit ==
    /\ agent_phase = "awaiting_approval"
    /\ "edited" \in render_panel
    /\ agent_phase' = "awaiting_edit"
    /\ decision' = "edited"
    /\ raised' = "none"
    /\ UNCHANGED <<agent_events, agent_messages, agent_tools, agent_chart_specs,
                   agent_pending_message, agent_rewrite_event_index>>

\* lines 375-377
ChooseReject ==
    /\ agent_phase = "awaiting_approval"
    /\ "rejected" \in render_panel
    /\ agent_phase' = "awaiting_feedback"
    /\ decision' = "rejected"
    /\ raised' = "none"
    /\ UNCHANGED <<agent_events, agent_messages, agent_tools, agent_chart_specs,
                   agent_pending_message, agent_rewrite_event_index>>

\* a cancel that always returns to done, whatever is pending
CancelEdit_always_done ==
    /\ agent_phase = "awaiting_edit"
    /\ "edit_cancelled" \in render_panel
    /\ agent_rewrite_event_index' = NoIndex
    /\ agent_phase' = "done"
    /\ decision' = "edit_cancelled"
    /\ raised' = "none"
    /\ UNCHANGED <<agent_events, agent_messages, agent_tools, agent_chart_specs,
                   agent_pending_message>>

\* lines 378-385
CancelEdit ==
    /\ agent_phase = "awaiting_edit"
    /\ "edit_cancelled" \in render_panel
    /\ IF agent_pending_message # None
       THEN /\ agent_phase' = "awaiting_approval"
            /\ UNCHANGED agent_rewrite_event_index
       ELSE /\ agent_rewrite_event_index' = NoIndex
            /\ agent_phase' = "done"
    /\ decision' = "edit_cancelled"
    /\ raised' = "none"
    /\ UNCHANGED <<agent_events, agent_messages, agent_tools, agent_chart_specs,
                   agent_pending_message>>

\* lines 386-391
SubmitEdit ==
    /\ agent_phase = "awaiting_edit"
    /\ "edit_submitted" \in render_panel
    /\ \E edit_prompt \in Prompts :
          IF edit_prompt = ""
          THEN UNCHANGED run
          ELSE IF agent_pending_message # None
          THEN Room /\ edit_pending_tools(edit_prompt)
          ELSE IF agent_rewrite_event_index # NoIndex
          THEN rewind_and_edit(agent_rewrite_event_index, edit_prompt)
          ELSE UNCHANGED run
    /\ decision' = "edit_submitted"
    /\ raised' = "none"

\* lines 392-396
SelectRewind ==
    /\ agent_phase = "done"
    /\ "rewind_index" \in render_panel
    /\ \E rewind_index \in ActionIndices :
          agent_rewrite_event_index' = rewind_index
    /\ agent_phase' = "awaiting_edit"
    /\ decision' = "rewind_index"
    /\ raised' = "none"
    /\ UNCHANGED <<agent_events, agent_messages, agent_tools, agent_chart_specs,
                   agent_pending_message>>

\* lines 397-399
SubmitRejection ==
    /\ agent_phase = "awaiting_feedback"
    /\ "submitted" \in render_panel
    /\ Room
    /\ \E feedback \in Feedbacks : reject_pending_tools(feedback)
    /\ decision' = "submitted"
    /\ raised' = "none"

Next ==
    \/ NewQuestion
    \/ Tick
    \/ Approve
    \/ ChooseEdit
    \/ ChooseReject
    \/ CancelEdit
    \/ SubmitEdit
    \/ SelectRewind
    \/ SubmitRejection

Spec == Init /\ [][Next]_vars
\* ======================= properties =======================

\* the events that record an executed tool
IsToolEvent(e) == e.type \in {"action", "chart"}

\* the texts a tool run can return
ToolOutputs ==
    {query_movie_db(c) : c \in Codes} \cup {validate_chart(sp)[2] : sp \in SpecStrs}

\* a tool-result turn that carries real tool output
IsOutputTurn(m) == m.role = "tool" /\ m.content \in ToolOutputs

\* the step keeps every executed-tool record where it was and adds none
AddsNoToolRecord ==
    /\ \A j \in 1..Len(agent_events') :
          IsToolEvent(agent_events'[j])
             => j <= Len(agent_events) /\ agent_events[j] = agent_events'[j]
    /\ \A j \in 1..Len(agent_messages') :
          IsOutputTurn(agent_messages'[j])
             => j <= Len(agent_messages) /\ agent_messages[j] = agent_messages'[j]
    /\ Len(agent_chart_specs') <= Len(agent_chart_specs)

\* the step adds records of the pending proposal's calls only, after the old ones
AddsOnlyPendingCalls ==
    LET tcs == agent_pending_message.tool_calls
        names == {tcs[k].name : k \in 1..Len(tcs)}
        ids == {tcs[k].id : k \in 1..Len(tcs)}
    IN /\ Len(agent_events') >= Len(agent_events)
       /\ SubSeq(agent_events', 1, Len(agent_events)) = agent_events
       /\ \A j \in (Len(agent_events) + 1)..Len(agent_events') :
             IsToolEvent(agent_events'[j]) /\ agent_events'[j].name \in names
       /\ Len(agent_messages') > Len(agent_messages)
       /\ SubSeq(agent_messages', 1, Len(agent_messages)) = agent_messages
       /\ agent_messages'[Len(agent_messages) + 1] = agent_pending_message
       /\ \A j \in (Len(agent_messages) + 2)..Len(agent_messages') :
             agent_messages'[j].role = "tool" /\ agent_messages'[j].tool_call_id \in ids

\* C1: no tool executes without human approval: an Action or Chart event, a
\* tool-result turn carrying real tool output and any growth of the chart list
\* are added only by the approve decision, taken in awaiting_approval on the
\* pending proposal; every other step (tick, edit, reject, cancel, rewind,
\* new question) adds none.
C1_NoToolWithoutApproval ==
    [][ IF decision' = "approved"
        THEN /\ agent_phase = "awaiting_approval"
             /\ agent_pending_message # None
             /\ AddsOnlyPendingCalls
        ELSE AddsNoToolRecord ]_vars

\* C1 witness: an approval has just run a query and a valid chart
C1_Witness ==
    /\ decision = "approved"
    /\ raised = "none"
    /\ agent_chart_specs # <<>>
    /\ \E j \in 1..Len(agent_events) : agent_events[j].type = "action"
    /\ \E j \in 1..Len(agent_messages) : IsOutputTurn(agent_messages[j])

\* C2: a new question, in any phase, discards the whole previous run: phase is
\* thinking, the Transcript is exactly [system turn, user question], the Event
\* Log and the chart list are empty, nothing is pending and no rewind target
\* is selected.
C2_NewQuestionDiscardsRun ==
    [][ decision' = "analyze"
        => /\ agent_phase' = "thinking"
           /\ Len(agent_messages') = 2
           /\ agent_messages'[1].role = "system"
           /\ agent_messages'[2].role = "user"
           /\ agent_messages'[2].content \in {<<q>> : q \in Questions}
           /\ agent_events' = <<>>
           /\ agent_chart_specs' = <<>>
           /\ agent_pending_message' = None
           /\ agent_rewrite_event_index' = NoIndex ]_vars
\* the tool names of a registry
Registered == {agent_tools[k] : k \in 1..Len(agent_tools)}

\* C3: rejecting a pending proposal of n >= 1 calls with feedback f appends
\* exactly n Rejected events, one per call and each carrying f, appends the
\* proposal's assistant turn and n tool-result turns (one per call id) with
\* the rejection message (f, or "Try a different approach" when f is empty),
\* clears the pending proposal and sets phase to thinking; the chart list and
\* the earlier turns and events are unchanged.
C3_RejectAppendsPerCall ==
    [][ decision' = "submitted"
        => /\ agent_phase = "awaiting_feedback"
           /\ agent_pending_message # None
           /\ LET tcs == agent_pending_message.tool_calls
                  n == Len(tcs)
              IN /\ n >= 1
                 /\ \E f \in Feedbacks :
                       /\ agent_events' =
                             agent_events \o [k \in 1..n |-> [type |-> "rejected",
                                                              name |-> tcs[k].name,
                                                              feedback |-> f]]
                       /\ agent_messages' =
                             agent_messages \o <<agent_pending_message>>
                             \o [k \in 1..n |->
                                   [role |-> "tool",
                                    content |-> (IF f = ""
                                                 THEN <<"User rejected this action.",
                                                        " Try a different approach.">>
                                                 ELSE <<"User rejected this action.",
                                                        " User feedback: ", f>>),
                                    tool_call_id |-> tcs[k].id]]
           /\ agent_pending_message' = None
           /\ agent_phase' = "thinking"
           /\ agent_chart_specs' = agent_chart_specs ]_vars

\* C3 witness: a two-call proposal has just been rejected with "too slow"
C3_Witness ==
    /\ decision = "submitted"
    /\ agent_phase = "thinking"
    /\ Len(agent_events) >= 2
    /\ \A e \in {agent_events[Len(agent_events)], agent_events[Len(agent_events) - 1]} :
          e.type = "rejected" /\ e.feedback = "too slow"
    /\ agent_messages[Len(agent_messages) - 2].role = "assistant"
    /\ "tool_calls" \in DOMAIN agent_messages[Len(agent_messages) - 2]

\* C4: approving a pending proposal of n >= 1 calls that all name registered
\* tools records r = the Transcript length before the step, appends the
\* proposal's assistant turn at index r and n tool-result turns in call order,
\* each tagged with its call id, appends n Action/Chart events in call order,
\* each with rewind_point r, clears the pending proposal and sets phase to
\* thinking.
C4_ApproveExecutesInOrder ==
    [][ (/\ decision' = "approved"
         /\ \A k \in 1..Len(agent_pending_message.tool_calls) :
               agent_pending_message.tool_calls[k].name \in Registered)
        => LET tcs == agent_pending_message.tool_calls
               n == Len(tcs)
               r == Len(agent_messages)
           IN /\ n >= 1
              /\ Len(agent_messages') = r + 1 + n
              /\ SubSeq(agent_messages', 1, r) = agent_messages
              /\ agent_messages'[r + 1] = agent_pending_message
              /\ Len(agent_events') = Len(agent_events) + n
              /\ SubSeq(agent_events', 1, Len(agent_events)) = agent_events
              /\ \A k \in 1..n :
                    LET e == agent_events'[Len(agent_events) + k]
                        m == agent_messages'[r + 1 + k]
                    IN /\ e.type = (IF tcs[k].name = "QueryMovieDB" THEN "action" ELSE "chart")
                       /\ e.name = tcs[k].name
                       /\ e.rewind_point = r
                       /\ m.role = "tool"
                       /\ m.tool_call_id = tcs[k].id
                       /\ m.content = e.result
              /\ agent_pending_message' = None
              /\ agent_phase' = "thinking" ]_vars

\* C4 witness: a proposal of a query and a chart, both registered, was approved
C4_Witness ==
    /\ decision = "approved"
    /\ agent_phase = "thinking"
    /\ "CreateChart" \in Registered
    /\ Len(agent_events) >= 2
    /\ agent_events[Len(agent_events) - 1].type = "action"
    /\ agent_events[Len(agent_events)].type = "chart"
    /\ agent_events[Len(agent_events) - 1].rewind_point = agent_events[Len(agent_events)].rewind_point
    /\ agent_messages[Len(agent_messages)].role = "tool"

\* C5: rewind-and-edit on the selected Action/Chart event at index i with
\* rewind_point r and prompt p yields: Transcript = the old first r turns and
\* one new user turn carrying p; Event Log = the old first i events and one
\* new Edited{p} event; the rewind target is cleared; phase = acting.
C5_RewindAndEdit ==
    [][ (/\ decision' = "edit_submitted"
         /\ agent_pending_message = None
         /\ agent_phase' # agent_phase)
        => LET i == agent_rewrite_event_index
               r == agent_events[i + 1].rewind_point
           IN /\ IsToolEvent(agent_events[i + 1])
              /\ \E p \in Prompts \ {""} :
                    /\ agent_messages' =
                          Append(SubSeq(agent_messages, 1, r),
                                 [role |-> "user",
                                  content |-> <<"User wants changes: ", p,
                                                ". Regenerate the tool call.">>])
                    /\ agent_events' =
                          Append(SubSeq(agent_events, 1, i), [type |-> "edited", prompt |-> p])
              /\ Len(agent_messages') = r + 1
              /\ Len(agent_events') = i + 1
              /\ agent_rewrite_event_index' = NoIndex
              /\ agent_phase' = "acting" ]_vars

\* C5 witness: a rewind has just cut the log at a selected event and resumed
C5_Witness ==
    /\ decision = "edit_submitted"
    /\ agent_phase = "acting"
    /\ agent_rewrite_event_index = NoIndex
    /\ agent_events[Len(agent_events)] = [type |-> "edited", prompt |-> "use median instead"]
    /\ agent_messages[Len(agent_messages)].role = "user"
    /\ Len(agent_messages) > 2
    /\ \E j \in 1..Len(agent_events) : IsToolEvent(agent_events[j])

\* the specs of the Chart events of a log whose validation succeeded, in order
RECURSIVE ValidChartSpecs(_)
ValidChartSpecs(events) ==
    IF events = <<>>
    THEN <<>>
    ELSE LET rest == ValidChartSpecs(SubSeq(events, 1, Len(events) - 1))
             e == events[Len(events)]
         IN IF e.type = "chart" /\ e.spec_str = "{mark: bar}"
            THEN Append(rest, [mark |-> "bar"])
            ELSE rest

\* C6: in every reachable state the chart list is exactly the ordered sequence
\* of the specs of the Chart events now in the Event Log whose validation
\* succeeded: nothing left over from a removed event, nothing missing or
\* duplicated.
C6_ChartListDerived ==
    agent_chart_specs = ValidChartSpecs(agent_events)

\* C6 witness: a rewind removed the second call of a proposal, after a Chart
\* event that survives, valid or not
C6_Witness ==
    /\ decision = "edit_submitted"
    /\ agent_events[Len(agent_events)].type = "edited"
    /\ agent_messages[Len(agent_messages)].role = "user"
    /\ \E j \in 1..Len(agent_events) :
          agent_events[j].type = "chart" /\ agent_events[j].spec_str = "not json"
\* an observation that reports an error to the model
IsErrorObservation(content) ==
    content # <<>> /\ content \notin {query_movie_db(c) : c \in Codes}
                   /\ content # validate_chart("{mark: bar}")[2]

\* C7: when an approved proposal contains a call whose tool name is absent
\* from the run's Tool Registry, the approve step does not fail hard: it
\* appends a tool-result turn with that call's id carrying an error
\* observation, clears the pending proposal and moves to thinking, and the
\* Transcript holds one tool-result turn for every call of the proposal.
C7_UnknownToolIsObservation ==
    [][ (/\ decision' = "approved"
         /\ \E k \in 1..Len(agent_pending_message.tool_calls) :
               agent_pending_message.tool_calls[k].name \notin Registered)
        => LET tcs == agent_pending_message.tool_calls
               n == Len(tcs)
               r == Len(agent_messages)
           IN /\ raised' = "none"
              /\ agent_pending_message' = None
              /\ agent_phase' = "thinking"
              /\ Len(agent_messages') = r + 1 + n
              /\ agent_messages'[r + 1] = agent_pending_message
              /\ \A k \in 1..n :
                    LET m == agent_messages'[r + 1 + k]
                    IN /\ m.role = "tool"
                       /\ m.tool_call_id = tcs[k].id
                       /\ tcs[k].name \notin Registered => IsErrorObservation(m.content) ]_vars

\* C8: if the model-client call of a thinking or acting tick fails, phase,
\* Transcript, Event Log, pending proposal, chart list and rewind target are
\* exactly as before the tick, so the same tick can be retried.
C8_FailedTickChangesNothing ==
    [][ raised' = "ModelCallError"
        => /\ agent_phase \in {"thinking", "acting"}
           /\ agent_phase' = agent_phase
           /\ agent_messages' = agent_messages
           /\ agent_events' = agent_events
           /\ agent_pending_message' = agent_pending_message
           /\ agent_chart_specs' = agent_chart_specs
           /\ agent_rewrite_event_index' = agent_rewrite_event_index ]_vars

\* C8 witness: an acting tick has failed after a thought was recorded
C8_Witness ==
    /\ raised = "ModelCallError"
    /\ agent_phase = "acting"
    /\ agent_events # <<>>

\* C9: an Answer event is terminal for the run: it can only be the last event
\* of the Event Log, the log holds at most one, and while one is present the
\* phase is done or awaiting_edit (a rewind selection, nothing pending).
C9_AnswerIsTerminal ==
    /\ \A j \in 1..Len(agent_events) :
          agent_events[j].type = "answer" => j = Len(agent_events)
    /\ (\E j \in 1..Len(agent_events) : agent_events[j].type = "answer")
          => /\ agent_phase \in {"done", "awaiting_edit"}
             /\ agent_pending_message = None
             /\ agent_phase = "awaiting_edit" => agent_rewrite_event_index # NoIndex

\* C9 witness: a rewind target is being chosen in a run that has answered
C9_Witness ==
    /\ agent_phase = "awaiting_edit"
    /\ agent_events # <<>>
    /\ agent_events[Len(agent_events)].type = "answer"

\* C10: a thinking step appends the model's reason as exactly one assistant
\* turn and emits exactly one event: with use_tool a Thought event and phase
\* acting; without it the answer is non-empty, an Answer event carrying it is
\* the last event of the log and phase is done. No Answer event with an empty
\* or missing answer text is ever recorded.
C10_ThinkingStep ==
    [][ (agent_phase = "thinking" /\ decision' = "none" /\ raised' = "none")
        => /\ Len(agent_messages') = Len(agent_messages) + 1
           /\ SubSeq(agent_messages', 1, Len(agent_messages)) = agent_messages
           /\ Len(agent_events') = Len(agent_events) + 1
           /\ SubSeq(agent_events', 1, Len(agent_events)) = agent_events
           /\ LET m == agent_messages'[Len(agent_messages')]
                  e == agent_events'[Len(agent_events')]
              IN /\ m.role = "assistant"
                 /\ m.content = <<e.thought>>
                 /\ \/ e.type = "thought" /\ agent_phase' = "acting"
                    \/ /\ e.type = "answer"
                       /\ agent_phase' = "done"
                       /\ e.answer \notin {NoneStr, ""} ]_vars

\* the edit instruction a tool-result turn carries for prompt p
EditInstruction(p) ==
    <<"User wants changes to the proposed code: ", p,
      ". Regenerate the tool call with these changes.">>

\* C11: submitting a non-empty edit prompt p for a still-pending proposal of
\* n calls appends the proposal's assistant turn and n tool-result turns (one
\* per call id), each carrying the edit instruction with p, appends exactly
\* one Edited{p} event, clears the pending proposal and sets phase to acting
\* (not thinking); no tool is executed and the chart list is unchanged.
C11_EditPendingProposal ==
    [][ (/\ decision' = "edit_submitted"
         /\ agent_pending_message # None
         /\ agent_phase' # agent_phase)
        => LET tcs == agent_pending_message.tool_calls
               n == Len(tcs)
           IN /\ agent_phase = "awaiting_edit"
              /\ n >= 1
              /\ \E p \in Prompts \ {""} :
                    /\ agent_messages' =
                          agent_messages \o <<agent_pending_message>>
                          \o [k \in 1..n |-> [role |-> "tool",
                                              content |-> EditInstruction(p),
                                              tool_call_id |-> tcs[k].id]]
                    /\ agent_events' = Append(agent_events, [type |-> "edited", prompt |-> p])
              /\ agent_pending_message' = None
              /\ agent_phase' = "acting"
              /\ agent_chart_specs' = agent_chart_specs
              /\ AddsNoToolRecord ]_vars

\* C11 witness: a two-call proposal has just been edited
C11_Witness ==
    /\ decision = "edit_submitted"
    /\ agent_phase = "acting"
    /\ Len(agent_messages) >= 3
    /\ agent_messages[Len(agent_messages)].role = "tool"
    /\ agent_messages[Len(agent_messages) - 1].role = "tool"
    /\ agent_messages[Len(agent_messages)].content = EditInstruction("use median instead")
    /\ agent_events[Len(agent_events)] = [type |-> "edited", prompt |-> "use median instead"]

\* the step approves a proposal made right after an edit of a pending
\* proposal with prompt p: the Transcript still ends with the edit's tool turns
ApprovesAfterEdit(p) ==
    /\ decision' = "approved"
    /\ agent_events # <<>>
    /\ agent_events[Len(agent_events)] = [type |-> "edited", prompt |-> p]
    /\ agent_messages[Len(agent_messages)].role = "tool"

\* C12 as stated: after an edit with prompt p, a re-proposal and its approval,
\* the edit instruction carrying p is in the Transcript turn immediately
\* preceding the new proposal's first tool-result turn.
C12_EditInstructionBeforeToolResult ==
    [][ \A p \in Prompts :
          (ApprovesAfterEdit(p) /\ raised' = "none")
          => LET first == Len(agent_messages) + 2
                 m == agent_messages'[first - 1]
             IN /\ agent_messages'[first].role = "tool"
                /\ "content" \in DOMAIN m
                /\ m.content = EditInstruction(p) ]_vars

\* C12 amended: after an edit with prompt p, a re-proposal and its approval,
\* the edit instruction carrying p is in the Transcript turn immediately
\* preceding the new proposal's assistant turn, which in turn immediately
\* precedes the new proposal's first tool-result turn.
C12_EditInstructionBeforeProposal ==
    [][ \A p \in Prompts :
          ApprovesAfterEdit(p)
          => LET r == Len(agent_messages)
             IN /\ agent_messages'[r].role = "tool"
                /\ agent_messages'[r].content = EditInstruction(p)
                /\ agent_messages'[r + 1] = agent_pending_message
                /\ raised' = "none"
                      => /\ agent_messages'[r + 2].role = "tool"
                         /\ agent_messages'[r + 2].tool_call_id
                               = agent_pending_message.tool_calls[1].id ]_vars

\* C12 witness: edit, re-proposal and approval have happened in a row
C12_Witness ==
    /\ decision = "approved"
    /\ raised = "none"
    /\ \E j \in 1..(Len(agent_messages) - 2) :
          /\ agent_messages[j].role = "tool"
          /\ agent_messages[j].content = EditInstruction("use median instead")
          /\ "tool_calls" \in DOMAIN agent_messages[j + 1]
          /\ IsOutputTurn(agent_messages[j + 2])

\* the seven phases of section 3
Phases ==
    {"idle", "thinking", "acting", "awaiting_approval", "awaiting_edit",
     "awaiting_feedback", "done"}

\* the transitions of the table of section 4.4, as <<from, to>>
TransitionTable ==
    { <<"idle", "thinking">>, <<"thinking", "done">>, <<"thinking", "acting">>,
      <<"acting", "awaiting_approval">>, <<"acting", "done">>,
      <<"awaiting_approval", "thinking">>, <<"awaiting_approval", "awaiting_edit">>,
      <<"awaiting_approval", "awaiting_feedback">>, <<"awaiting_edit", "acting">>,
      <<"awaiting_edit", "awaiting_approval">>, <<"awaiting_edit", "done">>,
      <<"awaiting_feedback", "thinking">>, <<"done", "awaiting_edit">> }

\* the transitions that only change the phase
PurePhaseChanges ==
    { <<"awaiting_approval", "awaiting_edit">>, <<"awaiting_approval", "awaiting_feedback">>,
      <<"done", "awaiting_edit">>, <<"awaiting_edit", "awaiting_approval">>,
      <<"awaiting_edit", "done">> }

\* s is a prefix of t
IsPrefix(s, t) == Len(s) <= Len(t) /\ SubSeq(t, 1, Len(s)) = s

\* the step is a step of the specified state machine
SpecifiedStep ==
    LET restart == decision' = "analyze"
        rewind == decision' = "edit_submitted" /\ agent_pending_message = None
        transition == agent_phase' # agent_phase
                      /\ <<agent_phase, agent_phase'>> \in TransitionTable
    IN /\ agent_phase \in Phases
       /\ agent_phase' \in Phases
       /\ agent_phase' # agent_phase => transition \/ (restart /\ agent_phase' = "thinking")
       /\ (agent_messages' # agent_messages \/ agent_events' # agent_events)
             => transition \/ restart
       /\ (~restart /\ <<agent_phase, agent_phase'>> \in PurePhaseChanges)
             => agent_messages' = agent_messages /\ agent_events' = agent_events
       /\ (~restart /\ ~rewind)
             => IsPrefix(agent_messages, agent_messages') /\ IsPrefix(agent_events, agent_events')

\* C13: every step of the implementation is a step of the specified state
\* machine: the phase is one of the seven phases, every phase change is a
\* transition of the table of section 4.4 or a restart to thinking by a new
\* question, and the Transcript and the Event Log change only in those
\* transitions (the pure phase changes leave them untouched; outside rewind
\* and restart the old Transcript and Event Log are prefixes of the new ones).
C13_RefinesStateMachine ==
    [][ SpecifiedStep ]_vars

\* the 1-based positions of the Action/Chart events of the log
ToolEventPositions == {j \in 1..Len(agent_events) : IsToolEvent(agent_events[j])}

\* C14 as stated: for proposals of any size, the rewind_point values of the
\* Action/Chart events are strictly increasing in Event Log order and each is
\* <= the current Transcript length.
C14_RewindPointsStrictlyIncreasing ==
    /\ \A j \in ToolEventPositions, k \in ToolEventPositions :
          j < k => agent_events[j].rewind_point < agent_events[k].rewind_point
    /\ \A j \in ToolEventPositions : agent_events[j].rewind_point <= Len(agent_messages)

\* C14 amended: the rewind_point values of the Action/Chart events are equal
\* for the events of one proposal (adjacent Action/Chart events of the log),
\* strictly increasing between events of different proposals, and each is
\* <= the current Transcript length.
C14_RewindPointsIncreasePerProposal ==
    /\ \A j \in ToolEventPositions, k \in ToolEventPositions :
          j < k => IF \A i \in j..k : i \in ToolEventPositions
                   THEN agent_events[j].rewind_point = agent_events[k].rewind_point
                   ELSE agent_events[j].rewind_point < agent_events[k].rewind_point
    /\ \A j \in ToolEventPositions : agent_events[j].rewind_point <= Len(agent_messages)

\* C14 witness: an event of a two-call proposal survived a rewind and a later
\* proposal has been approved after it
C14_Witness ==
    \E j \in ToolEventPositions, k \in ToolEventPositions :
        /\ j + 1 < k
        /\ agent_events[j + 1].type = "edited"
        /\ agent_events[j].rewind_point < agent_events[k].rewind_point

\* the event at position j has its proposal and its tool output in the
\* Transcript where its rewind_point says
HasItsProposal(j) ==
    LET e == agent_events[j]
        r == e.rewind_point
    IN /\ r + 1 <= Len(agent_messages)
       /\ "tool_calls" \in DOMAIN agent_messages[r + 1]
       /\ LET tcs == agent_messages[r + 1].tool_calls
          IN \E k \in 1..Len(tcs) :
                /\ tcs[k].name = e.name
                /\ r + 1 + k <= Len(agent_messages)
                /\ agent_messages[r + 1 + k].role = "tool"
                /\ agent_messages[r + 1 + k].tool_call_id = tcs[k].id
                /\ agent_messages[r + 1 + k].content = e.result

\* C15: rewind integrity holds for every Action/Chart event of the Event Log
\* in every reachable state, also after a rewind that targeted a later event
\* of the same multi-call proposal: the Transcript turn at index rewind_point
\* is the assistant turn carrying the event's proposal and it is followed by
\* the proposal's tool-result turns.
C15_RewindIntegrity ==
    \A j \in ToolEventPositions : HasItsProposal(j)

\* the position of the last turn before position j that is not a tool turn
\* (0 when there is none)
BatchHead(j) ==
    LET heads == {i \in 1..(j - 1) : agent_messages[i].role # "tool"}
    IN IF heads = {} THEN 0 ELSE CHOOSE i \in heads : \A h \in heads : h <= i

\* C16: in every reachable state the Transcript never holds a tool turn
\* without its preceding assistant proposal turn: every tool turn is preceded,
\* across only other tool turns of the same batch, by an assistant turn whose
\* proposal contains that tool turn's call id.
C16_ToolTurnHasProposal ==
    \A j \in 1..Len(agent_messages) :
        agent_messages[j].role = "tool"
        => LET h == BatchHead(j)
           IN /\ h >= 1
              /\ agent_messages[h].role = "assistant"
              /\ "tool_calls" \in DOMAIN agent_messages[h]
              /\ \E k \in 1..Len(agent_messages[h].tool_calls) :
                    agent_messages[h].tool_calls[k].id = agent_messages[j].tool_call_id
              /\ \A i \in (h + 1)..j :
                    \E k \in 1..Len(agent_messages[h].tool_calls) :
                       agent_messages[h].tool_calls[k].id = agent_messages[i].tool_call_id

\* C16 witness: a rewind has cut the Transcript at a rewind point, and a later
\* proposal was rejected on the cut Transcript
C16_Witness ==
    /\ decision = "submitted"
    /\ \E j \in 3..Len(agent_messages) :
          /\ agent_messages[j].role = "user"
          /\ \E i \in (j + 1)..Len(agent_messages) : agent_messages[i].role = "tool"

\* C17: the Run Controller never waits for the human in thinking or acting:
\* in those phases the panel offers no decision and the only step besides a
\* new question is a tick, which makes one model-client call; a tick whose
\* call succeeds takes thinking to acting or done and acting to
\* awaiting_approval or done, so awaiting_approval or done is reached within
\* two ticks without a human decision.
C17_TicksWithoutHuman ==
    [][ /\ agent_phase \in {"thinking", "acting"}
           => /\ render_panel = {}
              /\ decision' \in {"none", "analyze"}
        /\ (decision' = "none" /\ raised' = "none")
           => /\ agent_phase = "thinking" => agent_phase' \in {"acting", "done"}
              /\ agent_phase = "acting" => agent_phase' \in {"awaiting_approval", "done"}
              /\ agent_phase \in {"thinking", "acting"} ]_vars

\* C17 witness: two ticks in a row after an approval have reached
\* awaiting_approval again
C17_Witness ==
    /\ agent_phase = "awaiting_approval"
    /\ decision = "none"
    /\ raised = "none"
    /\ \E j \in 1..Len(agent_events) : IsToolEvent(agent_events[j])

\* C18: cancelling in awaiting_edit changes nothing but the phase and the
\* rewind target: with a pending proposal the phase returns to
\* awaiting_approval with the same pending proposal, Transcript, Event Log,
\* chart list and rewind target (choose-edit then cancel restores the
\* awaiting_approval state); with no pending proposal and a rewind target the
\* phase returns to done, the target is cleared and Transcript, Event Log and
\* chart list are unchanged.
C18_CancelEditFrame ==
    [][ /\ decision' = "edited"
           => /\ agent_phase = "awaiting_approval" /\ agent_phase' = "awaiting_edit"
              /\ UNCHANGED <<agent_messages, agent_events, agent_chart_specs,
                             agent_pending_message, agent_tools,
                             agent_rewrite_event_index>>
        /\ decision' = "edit_cancelled"
           => /\ agent_phase = "awaiting_edit"
              /\ agent_messages' = agent_messages
              /\ agent_events' = agent_events
              /\ agent_chart_specs' = agent_chart_specs
              /\ agent_pending_message' = agent_pending_message
              /\ agent_tools' = agent_tools
              /\ IF agent_pending_message # None
                 THEN /\ agent_phase' = "awaiting_approval"
                      /\ agent_rewrite_event_index' = agent_rewrite_event_index
                 ELSE /\ agent_rewrite_event_index # NoIndex
                      /\ agent_phase' = "done"
                      /\ agent_rewrite_event_index' = NoIndex ]_vars

\* C18 witness: a rewind selection in a run that has answered was cancelled
C18_Witness ==
    /\ decision = "edit_cancelled"
    /\ agent_phase = "done"
    /\ agent_rewrite_event_index = NoIndex
    /\ agent_events[Len(agent_events)].type = "answer"

\* C19: when an acting step's model call returns no tool calls, the phase
\* becomes done and nothing else changes: no event is appended (no Answer in
\* particular), no turn is appended to the Transcript and no pending proposal
\* is stored; so phase = done does not imply that the log ends with an Answer.
C19_NoCallsOnlyEndsRun ==
    [][ (/\ agent_phase = "acting"
         /\ decision' = "none"
         /\ raised' = "none"
         /\ agent_pending_message' = None)
        => /\ agent_phase' = "done"
           /\ agent_events' = agent_events
           /\ agent_messages' = agent_messages
           /\ agent_chart_specs' = agent_chart_specs
           /\ agent_tools' = agent_tools
           /\ agent_rewrite_event_index' = agent_rewrite_event_index ]_vars

\* C19 witness: an acting step without tool calls has ended the run, and the
\* last event of the log is not an Answer
C19_Witness ==
    /\ agent_phase = "done"
    /\ decision = "none"
    /\ raised = "none"
    /\ agent_pending_message = None
    /\ agent_events # <<>>
    /\ agent_events[Len(agent_events)].type # "answer"

\* C20: the pending proposal is consistent with the phase in every reachable
\* state: present in awaiting_approval and awaiting_feedback, absent in idle,
\* thinking, acting and done, and in awaiting_edit present exactly when the
\* phase was entered from awaiting_approval; when awaiting_edit was entered
\* from done by a rewind selection the proposal is absent and the rewind
\* target indexes an Action/Chart event of the current Event Log.
PendingMatchesPhase ==
    /\ agent_phase \in {"awaiting_approval", "awaiting_feedback"}
          => agent_pending_message # None
    /\ agent_phase \in {"idle", "thinking", "acting", "done"}
          => agent_pending_message = None
    /\ agent_phase = "awaiting_edit"
          => /\ decision = "edited" => agent_pending_message # None
             /\ decision = "rewind_index" => agent_pending_message = None
             /\ agent_pending_message = None
                   => agent_rewrite_event_index \in ActionIndices

EntersAwaitingEdit ==
    /\ decision' = "edited" => agent_phase = "awaiting_approval"
    /\ decision' = "rewind_index" => agent_phase = "done"
    /\ (agent_phase' = "awaiting_edit" /\ agent_phase # "awaiting_edit")
          => /\ agent_phase \in {"awaiting_approval", "done"}
             /\ agent_pending_message' # None <=> agent_phase = "awaiting_approval"
    /\ (agent_phase' = "awaiting_edit" /\ agent_phase = "awaiting_edit")
          => agent_pending_message' = agent_pending_message

C20_PendingConsistentWithPhase ==
    []PendingMatchesPhase /\ [][EntersAwaitingEdit]_vars

\* C20 witness: awaiting_edit entered from done by a rewind selection
C20_Witness ==
    /\ agent_phase = "awaiting_edit"
    /\ decision = "rewind_index"
    /\ agent_pending_message = None
    /\ agent_rewrite_event_index \in ActionIndices

\* C21: the run never gets stuck in awaiting_edit: in every reachable state
\* with phase = awaiting_edit the panel offers both the submit-edit and the
\* cancel decision, so a decision other than a new question can leave the
\* phase.
C21_AwaitingEditOffersDecisions ==
    agent_phase = "awaiting_edit"
        => {"edit_submitted", "edit_cancelled"} \subseteq render_panel
====
